---- MODULE Spec2Model ----
(***************************************************************************)
(* Model of the meditation API backend: the retry decorator, the           *)
(* GoogleApiCall generation client with its class-level model registry,    *)
(* the two content orchestrators (introduction text, session plan), and    *)
(* the introduction request handler with its session folders.              *)
(*                                                                         *)
(* Text is a sequence of one-character strings.  Floating point sampling   *)
(* parameters are kept as scaled integers: temperature in tenths, top_p in *)
(* hundredths.  The program is single threaded and time.sleep blocks, so   *)
(* one wrapped call runs at a time and registry or constructor operations  *)
(* happen between calls.                                                   *)
(***************************************************************************)
EXTENDS Integers, Sequences, FiniteSets, TLC

VARIABLES
    registry,     \* GoogleApiCall.MODEL_CONFIGS: model name -> config
    api_key,      \* whether GOOGLE_API_KEY is set in the environment
    client,       \* the GoogleApiCall object bound by the last successful construction
    ctor,         \* outcome of the last constructor call
    registered,   \* history: name -> config of the last add_model_config for it
    everNames,    \* history: every name that has been a key of the registry
    caller,       \* who invoked the wrapper: none, direct, intro, plan
    func,         \* the wrapped function: op (an arbitrary operation) or generate_content
    max_retries,  \* decorator parameter of the running wrapper
    delay,        \* decorator parameter of the running wrapper
    retries,      \* wrapper local
    pc,           \* idle, loop, sleep, returned, raised, done
    attempts,     \* history: the error kind of each invocation, "none" for a success
    response,     \* the remote response consumed by the last generate_content body
    sleeps,       \* history: number of time.sleep calls of the running wrapper
    slept,        \* history: seconds slept by the running wrapper
    ret,          \* what the wrapper returned or raised
    request,      \* the orchestrator's request
    out,          \* what the orchestrator returned or raised
    remote_calls, \* history: number of self.model.generate_content calls of the running wrapper
    prompt_ids,   \* the phrase ids embedded in the prompt of the running session-plan call
    catalog,      \* SessionPlanner.phrases_df: the rows of the phrase table, in file order
    clock,        \* datetime.now().timestamp(), in ticks of 1/TicksPerSecond second
    sessions,     \* the directories under audio/sessions, by name
    listed,       \* history: the directories the last cleanup_old_sessions listed
    session_id,   \* what the last create_session_folder returned
    called_at,    \* history: the clock reading of that call
    earlier,      \* history: clock reading and session id of one earlier call that returned
    hstate,       \* the request handler: idle, generating, responded, error
    resp          \* the handler's last response

vars == <<registry, api_key, client, ctor, registered, everNames, caller, func,
          max_retries, delay, retries, pc, attempts, response, sleeps, slept,
          ret, request, out, remote_calls, prompt_ids, catalog, clock, sessions,
          listed, session_id, called_at, earlier, hstate, resp>>

regVars == <<registry, api_key, client, ctor, registered, everNames>>
callVars == <<caller, func, max_retries, delay, retries, pc, attempts, response,
              sleeps, slept, ret, request, out, remote_calls, prompt_ids>>
folderVars == <<clock, sessions, listed, session_id, called_at, earlier>>
mainVars == <<clock, sessions, listed, session_id, called_at, earlier, hstate, resp>>

----------------------------------------------------------------------------
(* Bounds of the model *)

MaxTextLen == 2          \* longest remote response text
MaxRetriesArg == 3       \* largest max_retries given to a directly wrapped operation
ExtraCatalog == 2        \* largest number of catalog entries beyond the prompt's limit
MaxTicks == 6            \* number of seconds the clock advances
TicksPerSecond == 2      \* resolution of the clock

(* Program constants *)

DefaultMaxRetries == 3   \* @retry_on_error(max_retries=3, ...) on generate_content
DefaultDelay == 5        \* @retry_on_error(..., delay=5) on generate_content
PhraseLimit == 37        \* available_phrase_ids[:37]
KeepSessions == 5        \* sessions[5:] are removed

----------------------------------------------------------------------------
(* Text *)

Whitespace == {" ", "\t", "\n", "\r", "\f"}
Chars == {"a", " "}
Texts == UNION {[1..n -> Chars] : n \in 0..MaxTextLen}

RECURSIVE LStrip(_)
LStrip(s) == IF s # <<>> /\ Head(s) \in Whitespace THEN LStrip(Tail(s)) ELSE s

RECURSIVE RStrip(_)
RStrip(s) ==
    IF s # <<>> /\ s[Len(s)] \in Whitespace
    THEN RStrip(SubSeq(s, 1, Len(s) - 1))
    ELSE s

\* fault variant: the text is used as received
StripNothing(s) == s

\* str.strip()
Strip(s) == RStrip(LStrip(s))

Digit(d) == CASE d = 0 -> "0" [] d = 1 -> "1" [] d = 2 -> "2" [] d = 3 -> "3"
              [] d = 4 -> "4" [] d = 5 -> "5" [] d = 6 -> "6" [] d = 7 -> "7"
              [] d = 8 -> "8" [] d = 9 -> "9"

RECURSIVE NatStr(_)
NatStr(n) == IF n < 10 THEN <<Digit(n)>> ELSE NatStr(n \div 10) \o <<Digit(n % 10)>>

\* the f-string formatting of an int
IntStr(n) == IF n < 0 THEN <<"-">> \o NatStr(-n) ELSE NatStr(n)

----------------------------------------------------------------------------
(* Model registry: GoogleApiCall.MODEL_CONFIGS *)

DEFAULT_MODEL == "gemini-2.5-flash"

Config(t, p, k, m) ==
    [temperature |-> t, top_p |-> p, top_k |-> k, max_output_tokens |-> m]

MODEL_CONFIGS ==
    [n \in {"gemini-2.5-flash", "gemini-1.0-pro-latest", "gemini-2.5-pro"} |->
        CASE n = "gemini-2.5-flash" -> Config(5, 95, 40, 8000)
          [] n = "gemini-1.0-pro-latest" -> Config(7, 95, 40, 8000)
          [] n = "gemini-2.5-pro" -> Config(9, 95, 40, 8000)]

\* inputs of add_model_config
RegisterNames == {DEFAULT_MODEL, "custom-model"}
RegisterConfigs == {Config(2, 90, 20, 1024), Config(9, 95, 40, 8000)}

\* inputs of the constructor; "" stands for None and the empty string (both falsy)
CtorNames == {"", "custom-model"}

NoConfig == Config(0, 0, 0, 0)
NoHandle == [present |-> FALSE, model_name |-> "", generation_config |-> NoConfig]
NoClient == [exists |-> FALSE, model_name |-> "", model |-> NoHandle]
NoCtor == [arg |-> "", outcome |-> "none", key_checks |-> 0, sleeps |-> 0, config |-> NoConfig]

\* fault variant: the registry is rebuilt with the new entry alone
AddModelConfigReplacing(reg, name, config) == [n \in {name} |-> config]

\* fault variant: an existing entry is kept (setdefault)
AddModelConfigKeepFirst(reg, name, config) ==
    [n \in (DOMAIN reg) \cup {name} |-> IF n \in DOMAIN reg THEN reg[n] ELSE config]

\* cls.MODEL_CONFIGS[model_name] = config
AddModelConfig(reg, name, config) ==
    [n \in (DOMAIN reg) \cup {name} |-> IF n = name THEN config ELSE reg[n]]

\* list(cls.MODEL_CONFIGS.keys())
GetAvailableModels(reg) == DOMAIN reg

\* fault variant: falls back to the built-in default, not the registry's current entry
ResolveBuiltinDefault(reg, name) ==
    [ok |-> TRUE,
     config |-> IF name \in DOMAIN reg THEN reg[name] ELSE MODEL_CONFIGS[DEFAULT_MODEL]]

\* self.MODEL_CONFIGS.get(self.model_name, self.MODEL_CONFIGS[self.DEFAULT_MODEL]):
\* the default argument is evaluated first and raises KeyError when the key is absent
Resolve(reg, name) ==
    IF DEFAULT_MODEL \notin DOMAIN reg
    THEN [ok |-> FALSE, config |-> NoConfig]
    ELSE [ok |-> TRUE, config |-> IF name \in DOMAIN reg THEN reg[name] ELSE reg[DEFAULT_MODEL]]

\* GoogleApiCall._initialize_genai: the outcome and the object afterwards
InitializeGenai(self, key, reg) ==
    IF ~key
    THEN [ok |-> FALSE, err |-> "ValueError", self |-> self]
    ELSE LET r == Resolve(reg, self.model_name) IN
         IF ~r.ok
         THEN [ok |-> FALSE, err |-> "KeyError", self |-> self]
         ELSE [ok |-> TRUE, err |-> "none",
               self |-> [self EXCEPT !.model =
                            [present |-> TRUE,
                             model_name |-> self.model_name,
                             generation_config |-> r.config]]]

\* no wrapped call is running: the process is single threaded and the wrapper blocks
Quiet == pc \in {"idle", "done"} \/ (caller = "direct" /\ pc \in {"returned", "raised"})

\* self.model_name = model_name or self.DEFAULT_MODEL
CtorModelName(arg) == IF arg = "" THEN DEFAULT_MODEL ELSE arg

\* fault variant: the constructor's initialisation under the retry decorator
ConstructorRunRetried(self, key, reg) ==
    LET r == InitializeGenai(self, key, reg) IN
    [ok |-> r.ok, err |-> r.err, self |-> r.self,
     key_checks |-> IF r.ok THEN 1 ELSE DefaultMaxRetries,
     sleeps |-> IF r.ok THEN 0 ELSE DefaultMaxRetries - 1]

\* the body of __init__: one undecorated call of self._initialize_genai(), which
\* reads GOOGLE_API_KEY once; no time.sleep
ConstructorRun(self, key, reg) ==
    LET r == InitializeGenai(self, key, reg) IN
    [ok |-> r.ok, err |-> r.err, self |-> r.self, key_checks |-> 1, sleeps |-> 0]

\* GoogleApiCall.__init__(model_name): a failing constructor binds no object
Construct(arg) ==
    /\ Quiet
    /\ LET fresh == [exists |-> TRUE, model_name |-> CtorModelName(arg), model |-> NoHandle]
           r == ConstructorRun(fresh, api_key, registry)
       IN  /\ client' = IF r.ok THEN r.self ELSE client
           /\ ctor' = [arg |-> arg, outcome |-> IF r.ok THEN "ok" ELSE r.err,
                       key_checks |-> r.key_checks, sleeps |-> r.sleeps,
                       config |-> r.self.model.generation_config]
    /\ UNCHANGED <<registry, api_key, registered, everNames>>
    /\ UNCHANGED callVars
    /\ UNCHANGED <<catalog, hstate, resp>>
    /\ UNCHANGED folderVars

\* GoogleApiCall.add_model_config(model_name, config)
Register(name, config) ==
    /\ Quiet
    /\ registry' = AddModelConfig(registry, name, config)
    /\ registered' = [n \in (DOMAIN registered) \cup {name} |->
                         IF n = name THEN config ELSE registered[n]]
    /\ everNames' = everNames \cup GetAvailableModels(registry')
    /\ UNCHANGED <<api_key, client, ctor>>
    /\ UNCHANGED callVars
    /\ UNCHANGED <<catalog, hstate, resp>>
    /\ UNCHANGED folderVars

----------------------------------------------------------------------------
(* retry_on_error and the functions it wraps *)

NoErr == [kind |-> "none", at |-> 0]
NoRet == [kind |-> "none", text |-> <<>>, err |-> NoErr]
NoResponse == [ok |-> FALSE, text |-> <<>>]

\* what the remote generation call can do: raise, or answer with a text
Responses == {NoResponse} \cup {[ok |-> TRUE, text |-> t] : t \in Texts}

\* what an arbitrary wrapped operation can do: raise one of two errors, or return a value
OpErrors == {"OpErrorA", "OpErrorB"}
OpValues == {<<"a">>, <<"b">>}
OpOutcomes == {[err |-> e, val |-> <<>>] : e \in OpErrors}
                 \cup {[err |-> "none", val |-> v] : v \in OpValues}

\* parameters of a directly decorated operation
RetryArgs == 0..MaxRetriesArg
DelayArgs == {0, DefaultDelay}

\* fault variant: the body without the check of the stripped text
GenerateContentBodyNoCheck(self, key, reg, remote) ==
    IF ~remote.ok
    THEN [err |-> "RemoteError", val |-> <<>>, self |-> self, called |-> TRUE]
    ELSE [err |-> "none", val |-> Strip(remote.text), self |-> self, called |-> TRUE]

\* fault variant: the body without the check of self.model; None.generate_content
\* raises AttributeError
GenerateContentBodyNoReinit(self, key, reg, remote) ==
    IF ~self.model.present
    THEN [err |-> "AttributeError", val |-> <<>>, self |-> self, called |-> TRUE]
    ELSE IF ~remote.ok
    THEN [err |-> "RemoteError", val |-> <<>>, self |-> self, called |-> TRUE]
    ELSE IF Strip(remote.text) = <<>>
    THEN [err |-> "EmptyError", val |-> <<>>, self |-> self, called |-> TRUE]
    ELSE [err |-> "none", val |-> Strip(remote.text), self |-> self, called |-> TRUE]

\* fault variant: the body initialises the model on every call
GenerateContentBodyAlwaysInit(self, key, reg, remote) ==
    LET init == InitializeGenai(self, key, reg) IN
    IF ~init.ok
    THEN [err |-> init.err, val |-> <<>>, self |-> init.self, called |-> FALSE]
    ELSE IF ~remote.ok
    THEN [err |-> "RemoteError", val |-> <<>>, self |-> init.self, called |-> TRUE]
    ELSE IF Strip(remote.text) = <<>>
    THEN [err |-> "EmptyError", val |-> <<>>, self |-> init.self, called |-> TRUE]
    ELSE [err |-> "none", val |-> Strip(remote.text), self |-> init.self, called |-> TRUE]

\* the body of GoogleApiCall.generate_content for one remote response:
\* the error it raises ("none" when it returns), the value, the object afterwards,
\* and whether self.model.generate_content was called
GenerateContentBody(self, key, reg, remote) ==
    LET init == IF ~self.model.present
                THEN InitializeGenai(self, key, reg)
                ELSE [ok |-> TRUE, err |-> "none", self |-> self]
    IN  IF ~init.ok
        THEN [err |-> init.err, val |-> <<>>, self |-> init.self, called |-> FALSE]
        ELSE IF ~remote.ok
        THEN [err |-> "RemoteError", val |-> <<>>, self |-> init.self, called |-> TRUE]
        ELSE LET generated_text == Strip(remote.text) IN
             IF generated_text = <<>>
             THEN [err |-> "EmptyError", val |-> <<>>, self |-> init.self, called |-> TRUE]
             ELSE [err |-> "none", val |-> generated_text, self |-> init.self,
                   called |-> TRUE]

\* while retries < max_retries
LoopTest(r, n) == r < n

\* fault variant: the except clause testing retries > max_retries
OnExceptionNeverRaises(r, n) ==
    [retries |-> r + 1, pc |-> IF r + 1 > n THEN "raised" ELSE "sleep"]

\* fault variant: the except clause retrying at once, without time.sleep
OnExceptionNoSleep(r, n) ==
    [retries |-> r + 1, pc |-> IF r + 1 = n THEN "raised" ELSE "loop"]

\* the except clause: retries += 1; raise when retries == max_retries, else sleep
OnException(r, n) ==
    [retries |-> r + 1, pc |-> IF r + 1 = n THEN "raised" ELSE "sleep"]

\* fault variant: the wrapper raises the first exception it saw
ReraisedFirst(hist) == [kind |-> hist[1].err, at |-> 1]

\* the bare raise in the except clause: the exception being handled, i.e. the one
\* of the invocation that just failed
Reraised(hist) == [kind |-> hist[Len(hist)].err, at |-> Len(hist)]

\* one pass of the while body for the outcome o of func(*args, **kwargs)
WrapperStep(o) ==
    /\ attempts' = Append(attempts, [err |-> o.err, val |-> o.val])
    /\ IF o.err = "none"
       THEN /\ ret' = [kind |-> "value", text |-> o.val, err |-> NoErr]
            /\ pc' = "returned"
            /\ UNCHANGED retries
       ELSE LET e == OnException(retries, max_retries) IN
            /\ retries' = e.retries
            /\ pc' = e.pc
            /\ ret' = IF e.pc = "raised"
                      THEN [kind |-> "raise", text |-> <<>>, err |-> Reraised(attempts')]
                      ELSE ret
    /\ UNCHANGED <<caller, func, max_retries, delay, sleeps, slept, request, out>>
    /\ UNCHANGED <<registry, api_key, ctor, registered, everNames>>
    /\ UNCHANGED <<prompt_ids, catalog, hstate, resp>>
    /\ UNCHANGED folderVars

\* an invocation of an arbitrary wrapped operation
AttemptOp ==
    /\ pc = "loop" /\ func = "op"
    /\ LoopTest(retries, max_retries)
    /\ \E o \in OpOutcomes : WrapperStep(o)
    /\ UNCHANGED <<client, response, remote_calls>>

\* an invocation of generate_content
AttemptGenerate ==
    /\ pc = "loop" /\ func = "generate_content"
    /\ LoopTest(retries, max_retries)
    /\ \E remote \in Responses :
          LET o == GenerateContentBody(client, api_key, registry, remote) IN
          /\ WrapperStep(o)
          /\ client' = o.self
          /\ response' = IF o.called THEN remote ELSE NoResponse
          /\ remote_calls' = IF o.called THEN remote_calls + 1 ELSE remote_calls

\* fault variant: a delay that grows with the number of retries
SleepBackoff ==
    /\ pc = "sleep"
    /\ sleeps' = sleeps + 1
    /\ slept' = slept + delay * retries
    /\ pc' = "loop"
    /\ UNCHANGED <<caller, func, max_retries, delay, retries, attempts, response,
                   ret, request, out, remote_calls, prompt_ids>>
    /\ UNCHANGED regVars
    /\ UNCHANGED <<catalog, hstate, resp>>
    /\ UNCHANGED folderVars

\* time.sleep(delay)
Sleep ==
    /\ pc = "sleep"
    /\ sleeps' = sleeps + 1
    /\ slept' = slept + delay
    /\ pc' = "loop"
    /\ UNCHANGED <<caller, func, max_retries, delay, retries, attempts, response,
                   ret, request, out, remote_calls, prompt_ids>>
    /\ UNCHANGED regVars
    /\ UNCHANGED <<catalog, hstate, resp>>
    /\ UNCHANGED folderVars

\* the while condition is false: return None
LoopExit ==
    /\ pc = "loop"
    /\ ~LoopTest(retries, max_retries)
    /\ ret' = [kind |-> "null", text |-> <<>>, err |-> NoErr]
    /\ pc' = "returned"
    /\ UNCHANGED <<caller, func, max_retries, delay, retries, attempts, response,
                   sleeps, slept, request, out, remote_calls, prompt_ids>>
    /\ UNCHANGED regVars
    /\ UNCHANGED <<catalog, hstate, resp>>
    /\ UNCHANGED folderVars

----------------------------------------------------------------------------
(* Content orchestrators *)

MeditationTypes == {"breath_focus", "body_scan"}
Durations == {10, 11, 20, 21}
Contexts == {"none", "stressed"}

IntroDurations == {15, 20}

\* requests of the session planner and of the introduction endpoint
PlanRequests ==
    [meditation_type : MeditationTypes, duration_minutes : Durations, context : Contexts]
IntroRequests ==
    [meditation_type : MeditationTypes, duration_minutes : IntroDurations, context : {"none"}]

NoRequest == [meditation_type |-> "", duration_minutes |-> 0, context |-> "none"]
NoOut == [status |-> "none", src |-> "none", text |-> <<>>]

\* the fallback sentence of _generate_introduction_text
IntroFallback(req) ==
    <<"Welcome to your ">> \o IntStr(req.duration_minutes) \o <<"-minute ">>
        \o <<req.meditation_type>>
        \o <<" practice. Take a moment to settle in and let's begin this journey together.">>

\* the fallback fixtures of SessionPlanner._create_default_csv
Csv10 ==
    <<"1", ",", "1", ",", "0", "\n",
      "2", ",", "6", ",", "2", "\n",
      "3", ",", "1", "4", ",", "5", "\n",
      "4", ",", "3", "2", ",", "8">>

\* fault variant: the middle fixture with a minute offset that goes back
Csv20Decreasing ==
    <<"1", ",", "1", ",", "0", "\n",
      "2", ",", "6", ",", "2", "\n",
      "3", ",", "1", "4", ",", "5", "\n",
      "4", ",", "2", "0", ",", "4", "\n",
      "5", ",", "2", "6", ",", "1", "2", "\n",
      "6", ",", "3", "2", ",", "1", "5">>

Csv20 ==
    <<"1", ",", "1", ",", "0", "\n",
      "2", ",", "6", ",", "2", "\n",
      "3", ",", "1", "4", ",", "5", "\n",
      "4", ",", "2", "0", ",", "8", "\n",
      "5", ",", "2", "6", ",", "1", "2", "\n",
      "6", ",", "3", "2", ",", "1", "5">>

CsvLong ==
    <<"1", ",", "1", ",", "0", "\n",
      "2", ",", "6", ",", "3", "\n",
      "3", ",", "1", "4", ",", "6", "\n",
      "4", ",", "2", "0", ",", "1", "0", "\n",
      "5", ",", "2", "6", ",", "1", "5", "\n",
      "6", ",", "3", "2", ",", "2", "0", "\n",
      "7", ",", "3", "5", ",", "2", "5">>

\* fault variant: the selection with strict comparisons
CreateDefaultCsvStrict(duration_minutes) ==
    IF duration_minutes < 10 THEN Csv10
    ELSE IF duration_minutes < 20 THEN Csv20
    ELSE CsvLong

\* SessionPlanner._create_default_csv
CreateDefaultCsv(duration_minutes) ==
    IF duration_minutes <= 10 THEN Csv10
    ELSE IF duration_minutes <= 20 THEN Csv20
    ELSE CsvLong

\* fault variant: an orchestrator without the except clause
IntroductionResultPropagates(r, req) ==
    IF r.kind = "value"
    THEN [status |-> "returned", src |-> "ai", text |-> Strip(r.text)]
    ELSE [status |-> "raised", src |-> "none", text |-> <<>>]

\* the try/except of _generate_introduction_text around the wrapper's outcome r;
\* None.strip() raises inside the try and is caught as well
IntroductionResult(r, req) ==
    IF r.kind = "value"
    THEN [status |-> "returned", src |-> "ai", text |-> Strip(r.text)]
    ELSE [status |-> "returned", src |-> "fallback", text |-> IntroFallback(req)]

\* the try/except of SessionPlanner.create_session_plan around the wrapper's outcome r
SessionPlanResult(r, req) ==
    IF r.kind = "value"
    THEN [status |-> "returned", src |-> "ai", text |-> Strip(r.text)]
    ELSE [status |-> "returned", src |-> "fallback",
          text |-> CreateDefaultCsv(req.duration_minutes)]

\* a row of the phrase table: the id in the first column, then the phrase
PhraseRow(id) == <<id, "phrase">>

\* phrase tables: rows with the ids 1..n in ascending and in descending order
Ascending(n) == [i \in 1..n |-> PhraseRow(i)]
Descending(n) == [i \in 1..n |-> PhraseRow(n + 1 - i)]
CatalogSizes ==
    {0, 1, PhraseLimit - 1, PhraseLimit, PhraseLimit + 1, PhraseLimit + ExtraCatalog}
Catalogs == {Ascending(n) : n \in CatalogSizes} \cup {Descending(n) : n \in CatalogSizes}
DefaultCatalog == Ascending(PhraseLimit + ExtraCatalog)

\* SessionPlanner.get_available_phrases: self.phrases_df.iloc[:, 0].tolist()
GetAvailablePhrases(df) == [i \in 1..Len(df) |-> df[i][1]]

\* fault variant: the whole catalog goes into the prompt
PromptPhraseIdsUncut(ids) == ids

\* available_phrase_ids[:37]
PromptPhraseIds(ids) == IF Len(ids) <= PhraseLimit THEN ids ELSE SubSeq(ids, 1, PhraseLimit)

\* entry of wrapper(*args, **kwargs): retries = 0
Enter(who, f, n, d, req) ==
    /\ Quiet
    /\ caller' = who
    /\ func' = f
    /\ max_retries' = n
    /\ delay' = d
    /\ retries' = 0
    /\ pc' = "loop"
    /\ attempts' = <<>>
    /\ response' = NoResponse
    /\ sleeps' = 0
    /\ slept' = 0
    /\ ret' = NoRet
    /\ request' = req
    /\ out' = NoOut
    /\ remote_calls' = 0
    /\ UNCHANGED regVars
    /\ UNCHANGED catalog

\* a call of an operation decorated with retry_on_error(max_retries=n, delay=d)
CallOp(n, d) ==
    /\ n \in RetryArgs /\ d \in DelayArgs
    /\ Enter("direct", "op", n, d, NoRequest)
    /\ prompt_ids' = <<>>
    /\ UNCHANGED mainVars

\* a call of client.generate_content(message)
CallGenerate ==
    /\ client.exists
    /\ Enter("direct", "generate_content", DefaultMaxRetries, DefaultDelay, NoRequest)
    /\ prompt_ids' = <<>>
    /\ UNCHANGED mainVars

\* _generate_introduction_text(context) up to google_ai.generate_content(prompt)
CallIntroduction(req) ==
    /\ client.exists
    /\ Enter("intro", "generate_content", DefaultMaxRetries, DefaultDelay, req)
    /\ prompt_ids' = <<>>
    /\ UNCHANGED mainVars

\* SessionPlanner.create_session_plan(...) up to self.google_ai.generate_content(prompt)
CallSessionPlan(req) ==
    /\ client.exists
    /\ Enter("plan", "generate_content", DefaultMaxRetries, DefaultDelay, req)
    /\ prompt_ids' = PromptPhraseIds(GetAvailablePhrases(catalog))
    /\ UNCHANGED mainVars

\* _generate_introduction_text returns
IntroductionReturn ==
    /\ caller = "intro" /\ pc \in {"returned", "raised"}
    /\ out' = IntroductionResult(ret, request)
    /\ pc' = "done"
    /\ UNCHANGED <<caller, func, max_retries, delay, retries, attempts, response,
                   sleeps, slept, ret, request, remote_calls, prompt_ids>>
    /\ UNCHANGED regVars
    /\ UNCHANGED <<catalog, hstate, resp>>
    /\ UNCHANGED folderVars

\* create_session_plan returns
SessionPlanReturn ==
    /\ caller = "plan" /\ pc \in {"returned", "raised"}
    /\ out' = SessionPlanResult(ret, request)
    /\ pc' = "done"
    /\ UNCHANGED <<caller, func, max_retries, delay, retries, attempts, response,
                   sleeps, slept, ret, request, remote_calls, prompt_ids>>
    /\ UNCHANGED regVars
    /\ UNCHANGED <<catalog, hstate, resp>>
    /\ UNCHANGED folderVars

----------------------------------------------------------------------------
(* main.py: session folders and the introduction request handler *)

\* the clock starts KeepSessions seconds before its decimal form gets longer
FirstClock == (10 - KeepSessions) * TicksPerSecond
LastClock == FirstClock + MaxTicks * TicksPerSecond

\* fault variant: the timestamp rounded to the nearest second
IntTimestampRounded(t) == (2 * t + TicksPerSecond) \div (2 * TicksPerSecond)

\* int(datetime.now().timestamp()): the fraction of the second is cut off
IntTimestamp(t) == t \div TicksPerSecond

\* fault variant: os.makedirs without exist_ok
MakeDirsExclusive(dirs, name) ==
    IF name \in dirs THEN [ok |-> FALSE, dirs |-> dirs]
    ELSE [ok |-> TRUE, dirs |-> dirs \cup {name}]

\* os.makedirs(session_path, exist_ok=True) when the file system does not fail
MakeDirs(dirs, name) == [ok |-> TRUE, dirs |-> dirs \cup {name}]

NoCall == [at |-> 0, id |-> <<>>]

\* f"session_{int(datetime.now().timestamp())}"
SessionName(ts) == <<"session_">> \o IntStr(ts)

\* code point order of the characters of a folder name; the prefix is one unit
Code(c) == CASE c = "0" -> 48 [] c = "1" -> 49 [] c = "2" -> 50 [] c = "3" -> 51
             [] c = "4" -> 52 [] c = "5" -> 53 [] c = "6" -> 54 [] c = "7" -> 55
             [] c = "8" -> 56 [] c = "9" -> 57 [] OTHER -> 115

\* the order of Python strings, which list.sort uses
RECURSIVE StrLess(_, _)
StrLess(a, b) ==
    IF a = <<>> THEN b # <<>>
    ELSE IF b = <<>> THEN FALSE
    ELSE IF Head(a) = Head(b) THEN StrLess(Tail(a), Tail(b))
    ELSE Code(Head(a)) < Code(Head(b))

\* index of d in the listing after sessions.sort(reverse=True)
Rank(d, dirs) == Cardinality({e \in dirs : StrLess(d, e)})

\* sessions[5:]
OldSessions(dirs) == {d \in dirs : Rank(d, dirs) >= KeepSessions}

\* the directories removed before the j-th shutil.rmtree of the loop
RemovedBefore(dirs, j) == {d \in OldSessions(dirs) : Rank(d, dirs) < KeepSessions + j - 1}

NoResp == [status |-> 0, session_id |-> <<>>, introduction_text |-> <<>>, audio_url |-> <<>>]

\* raise HTTPException(status_code=500, ...)
ErrorResponse ==
    [status |-> 500, session_id |-> <<>>, introduction_text |-> <<>>, audio_url |-> <<>>]

HandlerRequests ==
    [meditation_type : {"body_scan"}, duration_minutes : {20}, context : {"none"}]

\* fault variant: the handler treats the fallback text as an error
HandlerResponseRejectsFallback(o, sid) ==
    IF o.status = "returned" /\ o.src = "ai"
    THEN [status |-> 200, session_id |-> sid, introduction_text |-> o.text,
          audio_url |-> <<>>]
    ELSE ErrorResponse

\* the end of create_meditation_introduction for the outcome o of
\* _generate_introduction_text: IntroductionResponse(...) with audio_url = "",
\* or the except clause
HandlerResponse(o, sid) ==
    IF o.status = "returned"
    THEN [status |-> 200, session_id |-> sid, introduction_text |-> o.text,
          audio_url |-> <<>>]
    ELSE ErrorResponse

\* the event loop is free: the handler is a coroutine without an await, so it runs
\* from its first line to its return before any other request is served
LoopFree == hstate # "generating" /\ Quiet

\* the clock advances between requests (it is read once, on entry of the handler)
Tick ==
    /\ hstate # "generating"
    /\ clock < LastClock
    /\ clock' = clock + 1
    /\ UNCHANGED <<sessions, listed, session_id, called_at, earlier, hstate, resp, catalog>>
    /\ UNCHANGED regVars
    /\ UNCHANGED callVars

\* how a call of create_session_folder can end
FolderOutcomes == {"makedirs_error", "rmtree_error", "returned"}

\* create_session_folder: os.makedirs, then cleanup_old_sessions; an OSError of
\* os.makedirs leaves the directory as it was, one of shutil.rmtree leaves the
\* folders removed before it missing
CreateSessionFolder(outcome) ==
    LET name == SessionName(IntTimestamp(clock))
        mk == MakeDirs(sessions, name)
        made == mk.dirs
    IN  \/ /\ outcome = "makedirs_error"
           /\ UNCHANGED <<sessions, listed, session_id>>
        \/ /\ outcome = "rmtree_error"
           /\ mk.ok
           /\ \E j \in 1..Cardinality(OldSessions(made)) :
                 sessions' = made \ RemovedBefore(made, j)
           /\ listed' = made
           /\ UNCHANGED session_id
        \/ /\ outcome = "returned"
           /\ mk.ok
           /\ sessions' = made \ OldSessions(made)
           /\ listed' = made
           /\ session_id' = name

\* a call of create_session_folder() by itself, with the history of its returns
CallCreateSessionFolder(outcome) ==
    /\ LoopFree
    /\ CreateSessionFolder(outcome)
    /\ IF outcome = "returned"
       THEN /\ called_at' = clock
            /\ earlier' \in {earlier} \cup
                   (IF session_id # <<>>
                    THEN {[at |-> called_at, id |-> session_id]} ELSE {})
       ELSE UNCHANGED <<called_at, earlier>>
    /\ UNCHANGED <<clock, hstate, resp, catalog>>
    /\ UNCHANGED regVars
    /\ UNCHANGED callVars

\* create_meditation_introduction up to google_ai.generate_content(prompt):
\* create_session_folder, then the entry of _generate_introduction_text; a
\* file-system error goes to the except clause
StartIntroductionRequest(req) ==
    /\ LoopFree
    /\ client.exists
    /\ \E outcome \in FolderOutcomes :
          /\ CreateSessionFolder(outcome)
          /\ IF outcome = "returned"
             THEN /\ resp' = NoResp
                  /\ hstate' = "generating"
                  /\ Enter("intro", "generate_content", DefaultMaxRetries, DefaultDelay, req)
                  /\ prompt_ids' = <<>>
             ELSE /\ resp' = ErrorResponse
                  /\ hstate' = "error"
                  /\ UNCHANGED catalog
                  /\ UNCHANGED regVars
                  /\ UNCHANGED callVars
    /\ UNCHANGED <<clock, called_at, earlier>>

\* a request arrives and the event loop runs its handler
AcceptRequest == \E req \in HandlerRequests : StartIntroductionRequest(req)

\* create_meditation_introduction returns or raises
HandlerRespond ==
    /\ hstate = "generating" /\ caller = "intro" /\ pc = "done"
    /\ resp' = HandlerResponse(out, session_id)
    /\ hstate' = IF resp'.status = 200 THEN "responded" ELSE "error"
    /\ UNCHANGED <<catalog>>
    /\ UNCHANGED folderVars
    /\ UNCHANGED regVars
    /\ UNCHANGED callVars

----------------------------------------------------------------------------
(* Specification *)

Init ==
    /\ registry = MODEL_CONFIGS
    /\ api_key \in BOOLEAN
    /\ client = NoClient
    /\ ctor = NoCtor
    /\ registered = [n \in {} |-> NoConfig]
    /\ everNames = DOMAIN MODEL_CONFIGS
    /\ caller = "none"
    /\ func = "none"
    /\ max_retries = 0
    /\ delay = 0
    /\ retries = 0
    /\ pc = "idle"
    /\ attempts = <<>>
    /\ response = NoResponse
    /\ sleeps = 0
    /\ slept = 0
    /\ ret = NoRet
    /\ request = NoRequest
    /\ out = NoOut
    /\ remote_calls = 0
    /\ prompt_ids = <<>>
    /\ catalog = DefaultCatalog
    /\ clock = FirstClock
    /\ sessions = {}
    /\ listed = {}
    /\ session_id = <<>>
    /\ called_at = 0
    /\ earlier = NoCall
    /\ hstate = "idle"
    /\ resp = NoResp

Next ==
    \/ \E arg \in CtorNames : Construct(arg)
    \/ \E name \in RegisterNames, config \in RegisterConfigs : Register(name, config)
    \/ \E n \in RetryArgs, d \in DelayArgs : CallOp(n, d)
    \/ CallGenerate
    \/ \E req \in IntroRequests : CallIntroduction(req)
    \/ \E req \in PlanRequests : CallSessionPlan(req)
    \/ AttemptOp
    \/ AttemptGenerate
    \/ Sleep
    \/ LoopExit
    \/ IntroductionReturn
    \/ SessionPlanReturn

Spec == Init /\ [][Next]_vars

\* google_ai = GoogleApiCall() at import of main.py and in SessionPlanner.__init__
DefaultClient ==
    ConstructorRun([exists |-> TRUE, model_name |-> CtorModelName(""), model |-> NoHandle],
                   TRUE, MODEL_CONFIGS).self

\* no wrapped call has run yet
IdleCall ==
    /\ caller = "none"
    /\ func = "none"
    /\ max_retries = 0
    /\ delay = 0
    /\ retries = 0
    /\ pc = "idle"
    /\ attempts = <<>>
    /\ response = NoResponse
    /\ sleeps = 0
    /\ slept = 0
    /\ ret = NoRet
    /\ request = NoRequest
    /\ out = NoOut
    /\ remote_calls = 0
    /\ prompt_ids = <<>>

\* no request has been handled yet
IdleHandler ==
    /\ clock = FirstClock
    /\ sessions = {}
    /\ listed = {}
    /\ session_id = <<>>
    /\ called_at = 0
    /\ earlier = NoCall
    /\ hstate = "idle"
    /\ resp = NoResp

\* the built-in registry and nothing registered
BuiltinRegistry ==
    /\ registry = MODEL_CONFIGS
    /\ registered = [n \in {} |-> NoConfig]
    /\ everNames = DOMAIN MODEL_CONFIGS

\* the state once main.py is imported
InitHandler ==
    /\ BuiltinRegistry
    /\ api_key = TRUE
    /\ client = DefaultClient
    /\ ctor = [arg |-> "", outcome |-> "ok", key_checks |-> 1, sleeps |-> 0,
               config |-> MODEL_CONFIGS[DEFAULT_MODEL]]
    /\ catalog = DefaultCatalog
    /\ IdleCall
    /\ IdleHandler

NextHandler ==
    \/ Tick
    \/ AcceptRequest
    \/ AttemptGenerate
    \/ Sleep
    \/ IntroductionReturn
    \/ HandlerRespond

\* the introduction endpoint of main.py
SpecHandler == InitHandler /\ [][NextHandler]_vars

NextFolder ==
    \/ Tick
    \/ \E outcome \in FolderOutcomes : CallCreateSessionFolder(outcome)

\* create_session_folder called over and over while the clock advances
SpecFolder == InitHandler /\ [][NextFolder]_vars

PlannerRequests ==
    [meditation_type : {"breath_focus"}, duration_minutes : {15}, context : Contexts]

\* a SessionPlanner over any of the catalogs
InitPlanner ==
    /\ BuiltinRegistry
    /\ api_key = TRUE
    /\ client = DefaultClient
    /\ ctor = [arg |-> "", outcome |-> "ok", key_checks |-> 1, sleeps |-> 0,
               config |-> MODEL_CONFIGS[DEFAULT_MODEL]]
    /\ catalog \in Catalogs
    /\ IdleCall
    /\ IdleHandler

NextPlanner ==
    \/ \E req \in PlannerRequests : CallSessionPlan(req)
    \/ AttemptGenerate
    \/ Sleep
    \/ SessionPlanReturn

\* the session planner
SpecPlanner == InitPlanner /\ [][NextPlanner]_vars

\* a client whose handle is absent: self.model is None, the state that the test
\* `if not self.model` of generate_content provides for
HandleAbsent(c) == [c EXCEPT !.model = NoHandle]

\* a client with or without its handle, with or without the API key
InitLazy ==
    /\ BuiltinRegistry
    /\ api_key \in BOOLEAN
    /\ client \in {DefaultClient, HandleAbsent(DefaultClient)}
    /\ ctor = NoCtor
    /\ catalog = DefaultCatalog
    /\ IdleCall
    /\ IdleHandler

NextLazy ==
    \/ CallGenerate
    \/ AttemptGenerate
    \/ Sleep

\* generate_content on a client whose handle may be absent
SpecLazy == InitLazy /\ [][NextLazy]_vars

----------------------------------------------------------------------------
(* Properties *)

WrapperDone == ret.kind # "none"
Failed(i) == attempts[i].err # "none"
AllFailed == \A i \in 1..Len(attempts) : Failed(i)

\* C1: for max_retries = n >= 1, an operation that fails on every invocation is
\* invoked exactly n times with exactly n-1 sleeps, then the wrapper raises; the
\* wrapper never sleeps after the final failed attempt.
C1_AlwaysFailing ==
    /\ (WrapperDone /\ max_retries >= 1 /\ AllFailed) =>
          /\ Len(attempts) = max_retries
          /\ sleeps = max_retries - 1
          /\ slept = (max_retries - 1) * delay
          /\ ret.kind = "raise"
    /\ pc = "sleep" => retries < max_retries

C1_Witness ==
    /\ func = "op" /\ max_retries = 3 /\ delay = DefaultDelay
    /\ pc = "raised" /\ AllFailed
    /\ Len(attempts) = 3 /\ sleeps = 2

\* C2: an operation that fails on attempts 1..k-1 and succeeds on attempt k <= n is
\* invoked exactly k times with exactly k-1 sleeps, and the wrapper returns the value
\* of attempt k without invoking it again.
C2_SuccessShortCircuits ==
    \A k \in 1..Len(attempts) :
        ~Failed(k) =>
            /\ k = Len(attempts)
            /\ k <= max_retries
            /\ \A i \in 1..(k - 1) : Failed(i)
            /\ sleeps = k - 1
            /\ ret = [kind |-> "value", text |-> attempts[k].val, err |-> NoErr]
            /\ pc \in {"returned", "done"}
            /\ ~ENABLED (AttemptOp \/ AttemptGenerate \/ Sleep)

C2_Witness ==
    /\ func = "op" /\ max_retries = 3
    /\ Len(attempts) = 2 /\ Failed(1) /\ ~Failed(2)
    /\ ret.kind = "value" /\ sleeps = 1

\* C3: with max_retries = 0 or 1 the wrapper invokes the wrapped operation at least
\* once before it returns or raises.
C3_AtLeastOneAttempt ==
    (WrapperDone /\ max_retries \in {0, 1}) => Len(attempts) >= 1

\* C4: when all max_retries attempts fail, the wrapper raises the failure of the last
\* attempt and returns no value.
C4_RaisesLastFailure ==
    (max_retries >= 1 /\ Len(attempts) = max_retries /\ AllFailed) =>
        /\ ret.kind = "raise"
        /\ ret.err = [kind |-> attempts[max_retries].err, at |-> max_retries]
        /\ ret.text = <<>>
        /\ pc \in {"raised", "done"}

C4_Witness ==
    /\ func = "op" /\ max_retries = 3 /\ pc = "raised"
    /\ attempts[1].err = "OpErrorA" /\ attempts[3].err = "OpErrorB"
    /\ ret.err = [kind |-> "OpErrorB", at |-> 3]

\* the last remote response was an empty or whitespace-only text
BlankResponse == response.ok /\ \A i \in 1..Len(response.text) : response.text[i] \in Whitespace

\* how the wrapper treats the failed attempt i of the running call
HandledAsFailure(i) ==
    /\ retries >= i
    /\ i < max_retries =>
          \/ i = Len(attempts) /\ pc = "sleep" /\ sleeps = i - 1 /\ ENABLED Sleep
          \/ i = Len(attempts) /\ pc = "loop" /\ sleeps = i /\ ENABLED AttemptGenerate
          \/ i < Len(attempts) /\ sleeps >= i
    /\ i = max_retries =>
          /\ i = Len(attempts)
          /\ sleeps = i - 1
          /\ ret.kind = "raise" /\ ret.err = [kind |-> attempts[i].err, at |-> i]

\* C5: in generate_content an empty or whitespace-only response is handled like a
\* raised remote failure: it consumes one attempt, is followed by a delay and a new
\* remote call if attempts remain, and is raised to the caller if it was the last.
C5_EmptyIsFailure ==
    func = "generate_content" =>
        /\ (BlankResponse /\ client.model.present) => attempts[Len(attempts)].err = "EmptyError"
        /\ \A i \in 1..Len(attempts) :
              attempts[i].err \in {"EmptyError", "RemoteError"} => HandledAsFailure(i)

C5_Witness ==
    /\ func = "generate_content" /\ pc = "raised"
    /\ attempts[1].err = "EmptyError" /\ attempts[2].err = "RemoteError"
    /\ attempts[3].err = "EmptyError"
    /\ response = [ok |-> TRUE, text |-> <<" ", " ">>]
    /\ ret.err = [kind |-> "EmptyError", at |-> 3]

\* C6: a call of generate_content either returns a non-empty text without leading or
\* trailing whitespace, or raises after its retries are exhausted; it never returns
\* an empty text or None.
C6_ValidTextOrRaise ==
    (func = "generate_content" /\ WrapperDone) =>
        \/ /\ ret.kind = "value"
           /\ ret.text # <<>>
           /\ ret.text[1] \notin Whitespace
           /\ ret.text[Len(ret.text)] \notin Whitespace
        \/ /\ ret.kind = "raise"
           /\ retries = DefaultMaxRetries
           /\ Len(attempts) = DefaultMaxRetries

C6_Witness ==
    /\ func = "generate_content" /\ caller = "direct"
    /\ Len(attempts) = 2
    /\ response = [ok |-> TRUE, text |-> <<" ", "a">>]
    /\ ret = [kind |-> "value", text |-> <<"a">>, err |-> NoErr]

\* the configuration a model name stands for, from the history of registrations
DefaultConfigNow ==
    IF DEFAULT_MODEL \in DOMAIN registered
    THEN registered[DEFAULT_MODEL]
    ELSE Config(5, 95, 40, 8000)

ExpectedConfig(name) ==
    IF name \in DOMAIN registered THEN registered[name]
    ELSE IF name \in DOMAIN MODEL_CONFIGS THEN MODEL_CONFIGS[name]
    ELSE DefaultConfigNow

\* C7: resolving a model's configuration never fails; a client constructed for a name
\* that was never registered gets the default model's configuration, and a client
\* constructed after add_model_config(name, cfg) gets exactly cfg.
C7_ResolveWithDefault ==
    [][(client' # client \/ ctor' # ctor) =>
          /\ ctor'.outcome # "KeyError"
          /\ api_key => ctor'.outcome = "ok"
          /\ ctor'.outcome = "ok" =>
                /\ client'.exists /\ client'.model.present
                /\ client'.model_name = CtorModelName(ctor'.arg)
                /\ client'.model.generation_config = ExpectedConfig(client'.model_name)]_vars

C7_Witness ==
    /\ client.exists /\ client.model_name = "custom-model"
    /\ "custom-model" \in DOMAIN registered
    /\ client.model.generation_config = registered["custom-model"]
    /\ client.model.generation_config # registry[DEFAULT_MODEL]

\* C8: in every reachable state the registry has an entry for the default model
\* name, and every name that was ever in the registry is still in it.
C8_RegistryKeepsEntries ==
    /\ DEFAULT_MODEL \in DOMAIN registry
    /\ everNames \subseteq DOMAIN registry
    /\ DOMAIN MODEL_CONFIGS \subseteq everNames
    /\ DOMAIN registered \subseteq everNames

C8_Witness ==
    /\ GetAvailableModels(registry) = DOMAIN MODEL_CONFIGS \cup {"custom-model"}
    /\ registry[DEFAULT_MODEL] # MODEL_CONFIGS[DEFAULT_MODEL]
    /\ client.exists /\ caller = "plan" /\ pc = "done"

\* C9: neither orchestrator propagates a generation failure: when generate_content
\* raises after its retries, _generate_introduction_text returns the fallback
\* sentence and create_session_plan returns a fallback CSV; neither raises.
C9_OrchestratorsNeverRaise ==
    /\ out.status # "raised"
    /\ (caller \in {"intro", "plan"} /\ pc \in {"returned", "raised"}) =>
          ENABLED (IntroductionReturn \/ SessionPlanReturn)
    /\ (caller = "intro" /\ pc = "done" /\ ret.kind = "raise") =>
          /\ out.status = "returned"
          /\ out.text = <<"Welcome to your ">> \o IntStr(request.duration_minutes)
                 \o <<"-minute ", request.meditation_type,
                      " practice. Take a moment to settle in and let's begin this journey together.">>
          /\ request.duration_minutes = 20 => SubSeq(out.text, 2, 3) = <<"2", "0">>
    /\ (caller = "plan" /\ pc = "done" /\ ret.kind = "raise") =>
          /\ out.status = "returned"
          /\ out.text \in {Csv10, Csv20, CsvLong}

C9_Witness ==
    /\ caller = "intro" /\ pc = "done" /\ ret.kind = "raise"
    /\ request.duration_minutes = 20 /\ request.meditation_type = "body_scan"
    /\ out.status = "returned" /\ out.src = "fallback"

\* number of rows of a CSV text
RowCount(t) == IF t = <<>> THEN 0 ELSE 1 + Cardinality({i \in 1..Len(t) : t[i] = "\n"})

\* C10: when generation fails the session-plan fallback depends on the duration
\* alone: at most 10 minutes gives the 4-row fixture, more than 10 and at most 20 the
\* 6-row fixture, more than 20 the 7-row fixture, whatever the type and the context.
C10_FallbackByDuration ==
    (caller = "plan" /\ pc = "done" /\ ret.kind = "raise") =>
        LET d == request.duration_minutes IN
        /\ d <= 10 => out.text = Csv10 /\ RowCount(out.text) = 4
        /\ (10 < d /\ d <= 20) => out.text = Csv20 /\ RowCount(out.text) = 6
        /\ d > 20 => out.text = CsvLong /\ RowCount(out.text) = 7

C10_Witness ==
    /\ caller = "plan" /\ pc = "done" /\ ret.kind = "raise"
    /\ request = [meditation_type |-> "body_scan", duration_minutes |-> 10,
                  context |-> "stressed"]
    /\ out.text = Csv10

\* C11: the introduction request handler never turns an AI-provider failure into an
\* error response: when generation fails on every attempt the handler still answers
\* 200 with the fallback introduction text and an empty audio_url; a failure of
\* session-folder creation or cleanup yields an error response.
C11_AiFailureNeverAnError ==
    /\ (hstate = "generating" /\ pc = "done") =>
          LET r == HandlerResponse(out, session_id) IN
          /\ r.status = 200
          /\ r.audio_url = <<>>
          /\ ret.kind # "value" => r.introduction_text = IntroFallback(request)
    /\ hstate = "responded" =>
          /\ resp.status = 200
          /\ resp.audio_url = <<>>
          /\ resp.session_id = session_id
          /\ ret.kind # "value" => resp.introduction_text = IntroFallback(request)
    /\ hstate = "error" => resp.status = 500

C11_Witness ==
    /\ hstate = "responded" /\ remote_calls = DefaultMaxRetries /\ AllFailed
    /\ ret.kind = "raise"
    /\ resp.status = 200 /\ resp.audio_url = <<>>
    /\ resp.introduction_text = IntroFallback(request)

\* a file-system failure in create_session_folder was answered with the error response
C11_FolderFailureWitness ==
    hstate = "error" /\ resp = ErrorResponse /\ Cardinality(sessions) > KeepSessions

\* C12: constructing a GoogleApiCall when the API key is absent fails immediately:
\* the credential check is made exactly once, there is no retry and no delay, and the
\* error is raised to the caller of the constructor (no client comes to exist).
C12_MissingKeyFailsAtOnce ==
    /\ (~api_key /\ ctor.outcome # "none") =>
          /\ ctor.outcome = "ValueError"
          /\ ctor.key_checks = 1
          /\ ctor.sleeps = 0
    /\ ~api_key => ~client.exists
    /\ ctor.outcome = "ValueError" => ~api_key

C12_Witness ==
    /\ ~api_key /\ ctor.outcome = "ValueError" /\ ctor.arg = "custom-model"
    /\ ctor.key_checks = 1 /\ ctor.sleeps = 0 /\ ~client.exists

Smaller(a, b) == IF a <= b THEN a ELSE b

\* C13: for a phrase catalog of any size, the phrase ids embedded in the session-plan
\* prompt are exactly the first min(37, catalog size) ids of the catalog in catalog
\* order; the prompt never contains more than 37 ids.
C13_PromptIdsCapped ==
    caller = "plan" =>
        /\ Len(prompt_ids) = Smaller(37, Len(catalog))
        /\ prompt_ids = [i \in 1..Smaller(37, Len(catalog)) |-> catalog[i][1]]
        /\ Len(prompt_ids) <= 37

C13_Witness ==
    /\ caller = "plan" /\ pc = "done"
    /\ Len(catalog) > 37 /\ catalog[1][1] = Len(catalog)
    /\ Len(prompt_ids) = 37 /\ prompt_ids[1] = Len(catalog) /\ prompt_ids[37] = catalog[37][1]

\* a catalog shorter than the limit goes into the prompt whole
C13_ShortWitness ==
    caller = "plan" /\ Len(catalog) = 36 /\ Len(prompt_ids) = 36 /\ prompt_ids[36] = catalog[36][1]

\* the remote call of every attempt of the running call raised
RemoteAlwaysFails ==
    /\ Len(attempts) >= 1
    /\ \A i \in 1..Len(attempts) : attempts[i].err = "RemoteError"

\* C14: a single call of generate_content makes at most 3 remote generation calls and
\* at most 2 delays, every delay being the same fixed 5 seconds; with the remote
\* permanently failing, one orchestrator call performs exactly 3 remote calls and 2
\* delays before it returns its fallback.
C14_ThreeCallsTwoFixedDelays ==
    func = "generate_content" =>
        /\ remote_calls <= 3
        /\ sleeps <= 2
        /\ slept = 5 * sleeps
        /\ (caller \in {"intro", "plan"} /\ pc = "done" /\ RemoteAlwaysFails) =>
              /\ remote_calls = 3
              /\ sleeps = 2
              /\ out.status = "returned" /\ out.src = "fallback"

C14_Witness ==
    /\ func = "generate_content" /\ caller = "plan" /\ pc = "done"
    /\ RemoteAlwaysFails
    /\ remote_calls = 3 /\ sleeps = 2 /\ slept = 10
    /\ out.src = "fallback"

\* attempt i of the running call failed in _initialize_genai
InitFailed(i) == attempts[i].err \in {"ValueError", "KeyError"}

\* one attempt of generate_content that starts with the handle absent either
\* initialises the handle and then makes the remote call, or fails in the
\* initialisation and makes no remote call
ReinitStep ==
    (func = "generate_content" /\ ~client.model.present
        /\ Len(attempts') = Len(attempts) + 1) =>
        \/ /\ client'.model.present
           /\ client'.model.model_name = client.model_name
           /\ remote_calls' = remote_calls + 1
           /\ attempts'[Len(attempts')].err \notin {"ValueError", "KeyError"}
        \/ /\ ~client'.model.present
           /\ remote_calls' = remote_calls
           /\ attempts'[Len(attempts')].err \in {"ValueError", "KeyError"}
           /\ retries' = retries + 1

\* C15: the remote generation call is never invoked on a missing session handle: on
\* every attempt of generate_content an absent handle is re-initialized before the
\* remote call, and a failure of that re-initialization counts as a failed attempt
\* under the retry policy.
C15_NoRemoteCallWithoutHandle ==
    /\ [](/\ remote_calls >= 1 => client.model.present
          /\ \A i \in 1..Len(attempts) : InitFailed(i) => HandledAsFailure(i)
          /\ (pc = "raised" /\ ~client.model.present) =>
                /\ Len(attempts) = 3 /\ sleeps = 2 /\ remote_calls = 0)
    /\ [][ReinitStep]_vars

C15_Witness ==
    /\ func = "generate_content" /\ ~client.model.present /\ pc = "raised"
    /\ Len(attempts) = 3 /\ \A i \in 1..3 : InitFailed(i)
    /\ sleeps = 2 /\ remote_calls = 0
    /\ ret.err = [kind |-> "ValueError", at |-> 3]

\* C16: after a client is constructed its model name never changes, and the
\* configuration it resolved at construction is changed neither by a later
\* add_model_config call (also one that overwrites the entry of the client's own model
\* name) nor by any number of generate_content calls, as long as the client is not
\* constructed anew.
C16_ClientKeepsModelAndConfig ==
    client.exists =>
        /\ ctor.outcome = "ok"
        /\ client.model_name = CtorModelName(ctor.arg)
        /\ client.model.present
        /\ client.model.model_name = client.model_name
        /\ client.model.generation_config = ctor.config

C16_Witness ==
    /\ client.exists /\ client.model_name = "custom-model"
    /\ client.model_name \in DOMAIN registered
    /\ registry[client.model_name] # client.model.generation_config
    /\ client.model.generation_config = ctor.config
    /\ func = "generate_content" /\ caller = "direct" /\ pc = "returned"
    /\ remote_calls = 2

\* the registry that the add_model_config calls made so far should have produced
RegistryExpected ==
    [n \in (DOMAIN MODEL_CONFIGS) \cup (DOMAIN registered) |->
        IF n \in DOMAIN registered THEN registered[n] ELSE MODEL_CONFIGS[n]]

\* C17: the registry is changed only by add_model_config: constructing a client (with
\* a known or an unknown model name), generate_content and get_available_models leave
\* every entry unchanged and add none, and add_model_config(name, cfg) sets the entry
\* of name to cfg and leaves every other entry unchanged, so that get_available_models
\* returns the previous names plus name.
C17_RegistryFrame ==
    /\ registry = RegistryExpected
    /\ GetAvailableModels(registry) = (DOMAIN MODEL_CONFIGS) \cup (DOMAIN registered)
    /\ (client.exists /\ client.model_name \notin DOMAIN registered) =>
          client.model_name \in DOMAIN registry <=> client.model_name \in DOMAIN MODEL_CONFIGS

C17_Witness ==
    /\ client.exists /\ client.model_name = "custom-model"
    /\ "custom-model" \notin GetAvailableModels(registry)
    /\ DOMAIN registered = {DEFAULT_MODEL}
    /\ registry[DEFAULT_MODEL] = Config(2, 90, 20, 1024)
    /\ registry["gemini-2.5-pro"] = MODEL_CONFIGS["gemini-2.5-pro"]
    /\ func = "generate_content" /\ remote_calls >= 1

\* C18: in the request handler's cooperative-concurrency host the retry delay of one
\* request is a suspension point that yields the scheduler: while one introduction
\* request waits in a retry delay, a second concurrent request can start (and then
\* complete), so the delay does not block the whole process.
C18_DelayYieldsScheduler ==
    (hstate = "generating" /\ func = "generate_content" /\ pc = "sleep") =>
        ENABLED AcceptRequest

\* reading a plan: the decimal value of a digit string, the pieces of a text between
\* separators, and the rows  sequence,phrase_id,minute  of a CSV text
DigitValue(c) == CHOOSE d \in 0..9 : Digit(d) = c

RECURSIVE ParseNat(_)
ParseNat(s) ==
    IF s = <<>> THEN 0
    ELSE 10 * ParseNat(SubSeq(s, 1, Len(s) - 1)) + DigitValue(s[Len(s)])

RECURSIVE SplitOn(_, _)
SplitOn(s, sep) ==
    IF \A i \in 1..Len(s) : s[i] # sep
    THEN <<s>>
    ELSE LET k == CHOOSE i \in 1..Len(s) : s[i] = sep /\ \A j \in 1..(i - 1) : s[j] # sep
         IN  <<SubSeq(s, 1, k - 1)>> \o SplitOn(SubSeq(s, k + 1, Len(s)), sep)

PlanRows(csv) ==
    LET lines == SplitOn(csv, "\n") IN
    [i \in 1..Len(lines) |->
        LET f == SplitOn(lines[i], ",") IN
        [fields |-> Len(f), sequence |-> ParseNat(f[1]),
         phrase_id |-> ParseNat(f[2]), minute |-> ParseNat(f[3])]]

\* the declared row schema: three columns, sequence numbers 1..n ascending, minute
\* offsets non-decreasing, first row minute 0
ValidPlan(rows) ==
    /\ Len(rows) >= 1
    /\ \A i \in 1..Len(rows) : rows[i].fields = 3 /\ rows[i].sequence = i
    /\ rows[1].minute = 0
    /\ \A i \in 1..(Len(rows) - 1) : rows[i].minute <= rows[i + 1].minute

\* the six phrase-id categories of the prompt
PhraseCategories == <<1..5, 6..13, 14..19, 20..25, 26..31, 32..37>>

\* the categories that a plan takes a phrase from
Covered(rows) ==
    {c \in 1..6 : \E i \in 1..Len(rows) : rows[i].phrase_id \in PhraseCategories[c]}

\* create_session_plan has returned a fallback plan
FallbackPlanReturned == caller = "plan" /\ pc = "done" /\ out.src = "fallback"

\* C19 (as stated): each of the three fallback session plans is a valid sequence
\* under the declared row schema and contains at least one phrase id from each of the
\* six phrase-id categories.
C19_FallbackPlansCoverAll ==
    FallbackPlanReturned =>
        /\ ValidPlan(PlanRows(out.text))
        /\ Covered(PlanRows(out.text)) = 1..6

\* C19 (amended): each of the three fallback session plans is a valid sequence under
\* the declared row schema; the plans for more than 10 minutes contain a phrase id
\* from each of the six categories, the plan for at most 10 minutes contains one from
\* each of the categories 1-5, 6-13, 14-19 and 32-37 and none from 20-25 and 26-31.
C19_FallbackPlansValid ==
    FallbackPlanReturned =>
        /\ ValidPlan(PlanRows(out.text))
        /\ request.duration_minutes > 10 => Covered(PlanRows(out.text)) = 1..6
        /\ request.duration_minutes <= 10 => Covered(PlanRows(out.text)) = {1, 2, 3, 6}

C19_Witness ==
    /\ FallbackPlanReturned /\ request.duration_minutes = 10
    /\ Len(PlanRows(out.text)) = 4
    /\ PlanRows(out.text)[4] = [fields |-> 3, sequence |-> 4, phrase_id |-> 32, minute |-> 8]
    /\ Covered(PlanRows(out.text)) = {1, 2, 3, 6}

\* the longest fallback plan covers all six categories
C19_LongWitness ==
    /\ FallbackPlanReturned /\ request.duration_minutes = 21
    /\ Len(PlanRows(out.text)) = 7
    /\ PlanRows(out.text)[7].minute = 25
    /\ Covered(PlanRows(out.text)) = 1..6

\* the second of creation that a folder name carries
Timestamp(name) == ParseNat(Tail(name))

\* the k most recent folders of a set
MostRecent(dirs, k) ==
    {d \in dirs : Cardinality({e \in dirs : Timestamp(e) > Timestamp(d)}) < k}

\* the last call of create_session_folder returned (it did not raise)
FolderReturned == hstate \in {"generating", "responded"}

\* C20: after every return of create_session_folder, over any sequence of requests,
\* at most 5 session folders exist under the sessions directory, and the folders that
\* remain are the 5 most recent ones among those that existed before the cleanup.
C20_KeepsFiveMostRecent ==
    FolderReturned =>
        /\ Cardinality(sessions) <= 5
        /\ sessions = MostRecent(listed, 5)

\* C21: the folder that create_session_folder has just created still exists when the
\* call returns: the cleanup run inside the same call never deletes the newly created
\* session folder, for any set of session folders previously created by
\* create_session_folder under a non-decreasing clock.
C21_NewFolderSurvives ==
    FolderReturned => session_id \in sessions

\* session_path = f"audio/sessions/{session_id}"
SessionPath(id) == <<"audio/sessions/">> \o id

\* two clock readings within one whole second
SameSecond(t, u) == t \div TicksPerSecond = u \div TicksPerSecond

\* C22: the session identifier returned by create_session_folder is determined by the
\* clock's whole second alone: two requests handled within the same second receive
\* the same session_id and share one session folder (the second call finds the folder
\* and returns as well), and requests handled in different seconds receive different
\* session_ids.
C22_IdFromWholeSecond ==
    /\ session_id # <<>> => session_id = SessionName(called_at \div TicksPerSecond)
    /\ earlier # NoCall =>
          /\ SameSecond(earlier.at, called_at) <=> earlier.id = session_id
          /\ SameSecond(earlier.at, called_at) <=>
                SessionPath(earlier.id) = SessionPath(session_id)
    /\ (LoopFree /\ SessionName(clock \div TicksPerSecond) \in sessions) =>
          ENABLED CallCreateSessionFolder("returned")

C22_Witness ==
    /\ earlier # NoCall /\ earlier.at # called_at
    /\ SameSecond(earlier.at, called_at)
    /\ earlier.id = session_id /\ session_id \in sessions
    /\ Cardinality(sessions) = 1

\* two calls in different seconds returned different ids
C22_DifferentSecondsWitness ==
    /\ earlier # NoCall /\ called_at = earlier.at + 1
    /\ ~SameSecond(earlier.at, called_at)
    /\ earlier.id # session_id /\ {earlier.id, session_id} \subseteq sessions

====
